---- MODULE Spec2Model ----
(***************************************************************************)
(* Model of the session-validation and redirect-safety gateway of my-sign: *)
(* the redirect policy (isValidRedirectUrl), the ForwardAuth handler, the  *)
(* callback handler and the logout handler, with the identity provider as  *)
(* a nondeterministic collaborator.                                        *)
(*                                                                         *)
(* Text is a sequence of one-character strings, so that suffix tests,      *)
(* splitting, trimming, URL parsing and URL encoding are computed rather   *)
(* than assumed.                                                           *)
(***************************************************************************)
EXTENDS Integers, Sequences, FiniteSets, TLC

VARIABLES env, req, calls, resp

vars == <<env, req, calls, resp>>

(***************************************************************************)
(* Bounds of the model.                                                    *)
(***************************************************************************)
\* Longest hostname enumerated over the alphabet HostChars.
MaxHostLen == 3
\* Longest base of a configured allow-list entry enumerated over BaseChars.
MaxBaseLen == 2
\* Number of calls of setAuthCookie and clearAuthCookie that are remembered.
MaxCookieCalls == 2

(***************************************************************************)
(* Text helpers (JavaScript String methods).                               *)
(***************************************************************************)
SeqsUpTo(A, n) == UNION {[1..k -> A] : k \in 0..n}

\* String.prototype.startsWith
StartsWith(s, t) == Len(t) <= Len(s) /\ SubSeq(s, 1, Len(t)) = t

\* String.prototype.endsWith
EndsWith(s, t) == Len(t) <= Len(s) /\ SubSeq(s, Len(s) - Len(t) + 1, Len(s)) = t

\* String.prototype.slice(n): the text from 0-based index n on
Slice(s, n) == SubSeq(s, n + 1, Len(s))

\* index of the first occurrence of a character of set C in s, 0 if none
RECURSIVE IndexOfAny(_, _, _)
IndexOfAny(s, C, i) ==
  IF i > Len(s) THEN 0
  ELSE IF s[i] \in C THEN i
  ELSE IndexOfAny(s, C, i + 1)

\* index of the last occurrence of character c in s, 0 if none
RECURSIVE LastIndexOf(_, _, _)
LastIndexOf(s, c, i) ==
  IF i < 1 THEN 0
  ELSE IF s[i] = c THEN i
  ELSE LastIndexOf(s, c, i - 1)

\* String.prototype.split(sep) for a one-character separator
RECURSIVE Split(_, _)
Split(s, sep) ==
  LET i == IndexOfAny(s, {sep}, 1)
  IN  IF i = 0 THEN <<s>>
      ELSE <<SubSeq(s, 1, i - 1)>> \o Split(SubSeq(s, i + 1, Len(s)), sep)

RECURSIVE TrimLeft(_)
TrimLeft(s) == IF s # <<>> /\ Head(s) = " " THEN TrimLeft(Tail(s)) ELSE s

RECURSIVE TrimRight(_)
TrimRight(s) ==
  IF s # <<>> /\ s[Len(s)] = " " THEN TrimRight(SubSeq(s, 1, Len(s) - 1)) ELSE s

\* String.prototype.trim
Trim(s) == TrimLeft(TrimRight(s))

(***************************************************************************)
(* Text constants that occur in the source.                                *)
(***************************************************************************)
T_http == <<"h", "t", "t", "p">>
T_https == <<"h", "t", "t", "p", "s">>
T_localhost == <<"l", "o", "c", "a", "l", "h", "o", "s", "t">>
T_mydomain == <<"m", "y", "d", "o", "m", "a", "i", "n", ".", "c", "o", "m">>
T_login == <<"/", "l", "o", "g", "i", "n">>
T_dashboard == <<"/", "d", "a", "s", "h", "b", "o", "a", "r", "d">>
T_redirect == <<"r", "e", "d", "i", "r", "e", "c", "t">>
T_slashes == <<":", "/", "/">>
\* 'http://localhost:3000'
T_defaultApp == T_http \o T_slashes \o T_localhost \o <<":", "3", "0", "0", "0">>

Letters ==
  {"a", "b", "c", "d", "e", "f", "g", "h", "i", "j", "k", "l",
   "m", "n", "o", "p", "q", "r", "s", "t", "u", "v", "w", "x", "y", "z", "A", "B"}
Digits == {"0", "1", "2", "3", "4", "5", "6", "7", "8", "9"}

(***************************************************************************)
(* new URL(s): the WHATWG URL parser, restricted to what the handlers read *)
(* (scheme, userinfo, hostname, port, the rest).  ok = FALSE models the    *)
(* TypeError thrown for a string that is no absolute URL.                  *)
(***************************************************************************)
SpecialSchemes == {T_http, T_https}

ToLower(s) ==
  [i \in 1..Len(s) |-> IF s[i] = "A" THEN "a" ELSE IF s[i] = "B" THEN "b" ELSE s[i]]

NoURL == [ok |-> FALSE]

\* the parser runs in stages; each stage hands what it found to the next

\* the authority is split into userinfo, host and port
ParseHostPort(scheme, userinfo, hostport, pcolon, rest) ==
  LET special == scheme \in SpecialSchemes
      host == IF pcolon = 0 THEN hostport ELSE SubSeq(hostport, 1, pcolon - 1)
      port == IF pcolon = 0 THEN <<>> ELSE SubSeq(hostport, pcolon + 1, Len(hostport))
  IN  IF (special /\ host = <<>>) \/ \E i \in 1..Len(port) : port[i] \notin Digits
        THEN NoURL                       \* empty host or bad port
      ELSE [ok |-> TRUE, scheme |-> scheme, authority |-> TRUE, userinfo |-> userinfo,
            hostname |-> IF special THEN ToLower(host) ELSE host, port |-> port,
            rest |-> IF special /\ rest = <<>> THEN <<"/">> ELSE rest]

ParseUserinfo(scheme, authority, at, rest) ==
  ParseHostPort(scheme, SubSeq(authority, 1, at - 1),
                SubSeq(authority, at + 1, Len(authority)),
                IndexOfAny(SubSeq(authority, at + 1, Len(authority)), {":"}, 1), rest)

\* the authority ends at the first "/", "?" or "#"
ParseAuthority(scheme, fromAuth, authEnd) ==
  LET authority == IF authEnd = 0 THEN fromAuth ELSE SubSeq(fromAuth, 1, authEnd - 1)
  IN  ParseUserinfo(scheme, authority, LastIndexOf(authority, "@", Len(authority)),
                    IF authEnd = 0 THEN <<>> ELSE SubSeq(fromAuth, authEnd, Len(fromAuth)))

\* the number of slashes that `after` starts with
LeadingSlashes(after) ==
  IF \A i \in 1..Len(after) : after[i] = "/"
    THEN Len(after)
    ELSE (CHOOSE i \in 1..Len(after) :
            after[i] # "/" /\ \A j \in 1..(i - 1) : after[j] = "/") - 1

\* a special scheme skips every slash before the authority; any other scheme
\* has an authority only behind exactly "//"
ParseFromAuthority(scheme, fromAuth) ==
  ParseAuthority(scheme, fromAuth, IndexOfAny(fromAuth, {"/", "?", "#"}, 1))

ParseAfterScheme(scheme, after) ==
  IF scheme \notin SpecialSchemes /\ ~StartsWith(after, <<"/", "/">>)
    THEN [ok |-> TRUE, scheme |-> scheme, authority |-> FALSE, userinfo |-> <<>>,
          hostname |-> <<>>, port |-> <<>>, rest |-> after]
    ELSE ParseFromAuthority(scheme,
           Slice(after, IF scheme \in SpecialSchemes THEN LeadingSlashes(after) ELSE 2))

\* s has a scheme: letters in front of the colon at index colon
HasScheme(s, colon) == colon > 1 /\ \A i \in 1..(colon - 1) : s[i] \in Letters

ParseFromColon(s, colon) ==
  IF ~HasScheme(s, colon) THEN NoURL     \* no scheme and no base URL
  ELSE ParseAfterScheme(ToLower(SubSeq(s, 1, colon - 1)), SubSeq(s, colon + 1, Len(s)))

ParseURL(s) == ParseFromColon(s, IndexOfAny(s, {":"}, 1))

\* URL.prototype.toString / href
Href(u) ==
  IF ~u.authority THEN u.scheme \o <<":">> \o u.rest
  ELSE u.scheme \o T_slashes
       \o (IF u.userinfo = <<>> THEN <<>> ELSE u.userinfo \o <<"@">>)
       \o u.hostname
       \o (IF u.port = <<>> THEN <<>> ELSE <<":">> \o u.port)
       \o u.rest

\* URL.prototype.origin of a special-scheme URL
Origin(u) ==
  u.scheme \o T_slashes \o u.hostname
  \o (IF u.port = <<>> THEN <<>> ELSE <<":">> \o u.port)

(***************************************************************************)
(* JavaScript null / undefined.  It is distinct from every text, whose     *)
(* elements are single characters.                                         *)
(***************************************************************************)
Null == <<"null">>

\* truthiness of a string-or-null value: `if (v)`, `v || d`, `!v`
Truthy(v) == v # Null /\ v # <<>>

\* v || d
OrElse(v, d) == IF Truthy(v) THEN v ELSE d

(***************************************************************************)
(* RedirectPolicy: isValidRedirectUrl.                                     *)
(* A result is [threw, value]: threw = TRUE models an exception that       *)
(* leaves the function.                                                    *)
(***************************************************************************)
Returned(v) == [threw |-> FALSE, value |-> v]
Threw == [threw |-> TRUE, value |-> FALSE]

\* the callback of allowedDomains.some(...) with the dot of the wildcard
\* suffix test dropped
DomainMatchesNoDot(hostname, domain) ==
  IF StartsWith(domain, <<"*", ".">>)
    THEN LET baseDomain == Slice(domain, 2)
         IN  hostname = baseDomain \/ EndsWith(hostname, baseDomain)
    ELSE hostname = domain \/ EndsWith(hostname, <<".">> \o domain)

\* the callback of allowedDomains.some(...)
DomainMatches(hostname, domain) ==
  IF StartsWith(domain, <<"*", ".">>)
    THEN LET baseDomain == Slice(domain, 2)
         IN  hostname = baseDomain \/ EndsWith(hostname, <<".">> \o baseDomain)
    ELSE hostname = domain \/ EndsWith(hostname, <<".">> \o domain)

\* process.env.ALLOWED_DOMAINS split on ',' and trimmed
AllowedDomains(e) ==
  LET allowedDomainsStr == OrElse(e.ALLOWED_DOMAINS, T_localhost)
      parts == Split(allowedDomainsStr, ",")
  IN  [i \in 1..Len(parts) |-> Trim(parts[i])]

\* a verdict that allows https URLs only
SomeDomainMatchesHttpsOnly(redirectUrl, allowedDomains) ==
  IF ~redirectUrl.ok THEN Threw
  ELSE Returned(/\ redirectUrl.scheme = T_https
                /\ \E i \in 1..Len(allowedDomains) :
                     DomainMatches(redirectUrl.hostname, allowedDomains[i]))

\* new URL(url) threw, or allowedDomains.some(...) gave the verdict
SomeDomainMatches(redirectUrl, allowedDomains) ==
  IF ~redirectUrl.ok THEN Threw
  ELSE Returned(\E i \in 1..Len(allowedDomains) :
                  DomainMatches(redirectUrl.hostname, allowedDomains[i]))

\* catch { return false }
CatchReturnsFalse(r) == IF r.threw THEN Returned(FALSE) ELSE r

\* the body of the try block of isValidRedirectUrl
IsValidRedirectUrlTry(url, e) == SomeDomainMatches(ParseURL(url), AllowedDomains(e))

\* isValidRedirectUrl without its catch clause
isValidRedirectUrlNoCatch(url, e) == IsValidRedirectUrlTry(url, e)

\* isValidRedirectUrl with its catch clause
isValidRedirectUrl(url, e) == CatchReturnsFalse(IsValidRedirectUrlTry(url, e))

\* the allow-list of lib/auth.ts
LibAllowedDomains == <<T_mydomain, T_localhost>>

\* allowedDomains.some(...) of lib/auth.ts
SomeLibDomainMatches(redirectUrl) ==
  IF ~redirectUrl.ok THEN Threw
  ELSE Returned(\E i \in 1..Len(LibAllowedDomains) :
                  redirectUrl.hostname = LibAllowedDomains[i]
                  \/ EndsWith(redirectUrl.hostname, <<".">> \o LibAllowedDomains[i]))

\* isValidRedirectUrl of lib/auth.ts: a fixed allow-list, no wildcard entries
isValidRedirectUrlLib(url) == CatchReturnsFalse(SomeLibDomainMatches(ParseURL(url)))

(***************************************************************************)
(* Characters as numbers: what Headers.set (ByteString) and                *)
(* Buffer.from(s, 'utf8') read.  A character outside ASCII is written by   *)
(* the name of its code point.                                             *)
(***************************************************************************)
CodePoint(c) ==
  CASE c = "U+5F20" -> 24352      \* 张
    [] c = "U+00E9" -> 233        \* é
    [] c = "A" -> 65
    [] c = "e" -> 101
    [] c = "1" -> 49
    [] c = "2" -> 50
    [] c = "@" -> 64
    [] OTHER -> 63                \* any other character of this model is ASCII

\* webidl ByteString conversion: every code unit at most 255
IsByteString(t) == \A i \in 1..Len(t) : CodePoint(t[i]) <= 255

\* the UTF-8 bytes of one code point below 0x10000
Utf8Char(cp) ==
  IF cp < 128 THEN <<cp>>
  ELSE IF cp < 2048 THEN <<192 + (cp \div 64), 128 + (cp % 64)>>
  ELSE <<224 + (cp \div 4096), 128 + ((cp \div 64) % 64), 128 + (cp % 64)>>

RECURSIVE Utf8(_)
Utf8(t) == IF t = <<>> THEN <<>> ELSE Utf8Char(CodePoint(Head(t))) \o Utf8(Tail(t))

B64Alphabet ==
  <<"A", "B", "C", "D", "E", "F", "G", "H", "I", "J", "K", "L", "M", "N", "O", "P",
    "Q", "R", "S", "T", "U", "V", "W", "X", "Y", "Z", "a", "b", "c", "d", "e", "f",
    "g", "h", "i", "j", "k", "l", "m", "n", "o", "p", "q", "r", "s", "t", "u", "v",
    "w", "x", "y", "z", "0", "1", "2", "3", "4", "5", "6", "7", "8", "9", "+", "/">>

\* Buffer.prototype.toString('base64') of a byte sequence
RECURSIVE Base64(_)
Base64(bytes) ==
  IF bytes = <<>> THEN <<>>
  ELSE IF Len(bytes) = 1 THEN
    <<B64Alphabet[(bytes[1] \div 4) + 1], B64Alphabet[((bytes[1] % 4) * 16) + 1], "=", "=">>
  ELSE IF Len(bytes) = 2 THEN
    <<B64Alphabet[(bytes[1] \div 4) + 1],
      B64Alphabet[((bytes[1] % 4) * 16) + (bytes[2] \div 16) + 1],
      B64Alphabet[((bytes[2] % 16) * 4) + 1], "=">>
  ELSE
    <<B64Alphabet[(bytes[1] \div 4) + 1],
      B64Alphabet[((bytes[1] % 4) * 16) + (bytes[2] \div 16) + 1],
      B64Alphabet[((bytes[2] % 16) * 4) + (bytes[3] \div 64) + 1],
      B64Alphabet[(bytes[3] % 64) + 1]>> \o Base64(SubSeq(bytes, 4, Len(bytes)))

(***************************************************************************)
(* URL encoding.                                                           *)
(***************************************************************************)
Hex(c) ==
  CASE c = ":" -> <<"%", "3", "A">>
    [] c = "/" -> <<"%", "2", "F">>
    [] c = "?" -> <<"%", "3", "F">>
    [] c = "=" -> <<"%", "3", "D">>
    [] c = "&" -> <<"%", "2", "6">>
    [] c = "@" -> <<"%", "4", "0">>
    [] c = "#" -> <<"%", "2", "3">>
    [] c = " " -> <<"%", "2", "0">>

Alnum == Letters \cup Digits

\* URLSearchParams serialisation (application/x-www-form-urlencoded)
RECURSIVE FormEncode(_)
FormEncode(t) ==
  IF t = <<>> THEN <<>>
  ELSE (IF Head(t) \in Alnum \cup {"*", "-", ".", "_"} THEN <<Head(t)>>
        ELSE IF Head(t) = " " THEN <<"+">>
        ELSE Hex(Head(t))) \o FormEncode(Tail(t))

\* encodeURIComponent
RECURSIVE EncodeURIComponent(_)
EncodeURIComponent(t) ==
  IF t = <<>> THEN <<>>
  ELSE (IF Head(t) \in Alnum \cup {"-", "_", ".", "!", "~", "*", "'", "(", ")"}
          THEN <<Head(t)>>
        ELSE Hex(Head(t))) \o EncodeURIComponent(Tail(t))

\* rel resolved against the parsed base b, abs being rel parsed on its own
ResolveAgainst(rel, abs, b) ==
  IF abs.ok THEN abs
  ELSE IF HasScheme(rel, IndexOfAny(rel, {":"}, 1)) \/ ~b.ok THEN NoURL
  ELSE IF rel = <<>> THEN b             \* the empty reference is the base itself
  ELSE ParseURL((IF StartsWith(rel, <<"/", "/">>) THEN b.scheme \o <<":">>
                 ELSE IF StartsWith(rel, <<"/">>) THEN Origin(b)
                 ELSE Origin(b) \o <<"/">>) \o rel)

\* new URL(rel, base): throws (ok = FALSE) when rel cannot be resolved
ResolveURL(rel, base) == ResolveAgainst(rel, ParseURL(rel), ParseURL(base))

(***************************************************************************)
(* Sessions of the identity provider.                                      *)
(***************************************************************************)
NoSession == [kind |-> "null"]
NoUser == [kind |-> "undefined"]

User(id, email, name) == [kind |-> "user", id |-> id, email |-> email, name |-> name]

Session(user, token, expires) ==
  [kind |-> "session", user |-> user, access_token |-> token,
   refresh_token |-> <<"r">> \o token, expires_in |-> expires,
   expires_at |-> 1000 + expires, token_type |-> <<"b">>]

Users ==
  {User(<<"1">>, em, nm) : em \in {Null, <<"e", "@", "b">>, <<"U+5F20", "@", "b">>},
                           nm \in {Null, <<"A">>, <<"U+5F20">>, <<"U+00E9">>}}
  \cup {User(<<"2">>, <<"e", "@", "b">>, <<"A">>)}

\* the sessions the provider may return: complete ones, one without its user
\* and one without its access token
Sessions ==
  {Session(u, <<"t">> \o u.id, 3600) : u \in Users}
  \cup {Session(NoUser, <<"t">>, 60)}
  \cup {[Session(User(<<"2">>, <<"e", "@", "b">>, <<"A">>), <<"t", "2">>, 3600)
           EXCEPT !.access_token = Null]}

\* an error message of the provider: 'bad code'
T_badCode == <<"b", "a", "d", " ", "c", "o", "d", "e">>

\* what a provider call does: it throws, or it returns { data: { session }, error }
ProviderThrew == [kind |-> "threw"]
ProviderReturned(session, error) ==
  [kind |-> "returned", session |-> session, error |-> error]

ProviderOutcomes ==
  {ProviderThrew}
  \cup {ProviderReturned(s, Null) : s \in Sessions \cup {NoSession}}
  \cup {ProviderReturned(s, T_badCode) :
          s \in {NoSession, Session(User(<<"2">>, <<"e", "@", "b">>, <<"A">>), <<"t", "2">>, 3600)}}

(***************************************************************************)
(* SessionGateway: validateSession and refreshSession.                     *)
(***************************************************************************)
\* validateSession without the test of `error`
validateSessionNoErrorTest(out) ==
  IF out.kind = "threw" THEN NoSession
  ELSE IF out.session = NoSession THEN NoSession
  ELSE [kind |-> "sessionData", user |-> out.session.user, session |-> out.session]

\* validateSession: out is what supabase.auth.getSession() does
validateSession(out) ==
  IF out.kind = "threw" THEN NoSession
  ELSE IF out.error # Null \/ out.session = NoSession THEN NoSession
  ELSE [kind |-> "sessionData", user |-> out.session.user, session |-> out.session]

\* refreshSession without the test of `error`
refreshSessionNoErrorTest(out) ==
  IF out.kind = "threw" THEN NoSession
  ELSE IF out.session = NoSession THEN NoSession
  ELSE out.session

\* refreshSession: out is what supabase.auth.refreshSession() does
refreshSession(out) ==
  IF out.kind = "threw" THEN NoSession
  ELSE IF out.error # Null \/ out.session = NoSession THEN NoSession
  ELSE out.session

(***************************************************************************)
(* Requests, responses and cookies.                                        *)
(***************************************************************************)
T_refreshToken == <<"s", "b", "-", "r", "e", "f", "r", "e", "s", "h", "-", "t", "o", "k", "e", "n">>
T_accessToken == <<"s", "b", "-", "a", "c", "c", "e", "s", "s", "-", "t", "o", "k", "e", "n">>
T_lax == <<"l", "a", "x">>
T_true == <<"t", "r", "u", "e">>
T_production == <<"p", "r", "o", "d", "u", "c", "t", "i", "o", "n">>
T_dotLocalhost == <<".">> \o T_localhost

\* request.cookies.get(name)?.value over the request's cookie pairs
RECURSIVE CookieValue(_, _)
CookieValue(cookies, name) ==
  IF cookies = <<>> THEN Null
  ELSE IF Head(cookies)[1] = name THEN Head(cookies)[2]
  ELSE CookieValue(Tail(cookies), name)

\* request.headers.get('cookie'): "name=value; name=value", null without cookies
RECURSIVE CookiePairs(_)
CookiePairs(cookies) ==
  IF cookies = <<>> THEN <<>>
  ELSE Head(cookies)[1] \o <<"=">> \o Head(cookies)[2]
       \o (IF Len(cookies) = 1 THEN <<>> ELSE <<";", " ">>)
       \o CookiePairs(Tail(cookies))

CookieHeader(cookies) == IF cookies = <<>> THEN Null ELSE CookiePairs(cookies)

NoRequest == [handler |-> "none"]
NoResponse == [kind |-> "none"]

\* new NextResponse(null, { status, headers }) with the Set-Cookie directives
Response(status, headers, cookies) ==
  [kind |-> "http", status |-> status, headers |-> headers, cookies |-> cookies]

\* what a handler does: it returns a response, or an exception leaves it
Handled(response, log) == [threw |-> FALSE, resp |-> response, calls |-> log]
HandlerThrew(log) == [threw |-> TRUE, resp |-> NoResponse, calls |-> log]

Call(op, out) == [op |-> op, out |-> out]

(***************************************************************************)
(* generateLoginUrl                                                        *)
(***************************************************************************)
\* loginUrl.toString() for new URL('/login', baseUrl) with ?redirect=originalUrl
LoginUrlWith(baseUrl, originalUrl) ==
  Origin(ParseURL(baseUrl)) \o T_login \o <<"?">> \o T_redirect \o <<"=">>
  \o FormEncode(originalUrl)

\* generateLoginUrl of part_000: the base is NEXT_APP_URL
generateLoginUrl(originalUrl, e) ==
  LoginUrlWith(OrElse(e.NEXT_APP_URL, T_defaultApp), originalUrl)

\* generateLoginUrl of lib/auth.ts: the base is NEXTAUTH_URL
generateLoginUrlLib(originalUrl, e) ==
  LoginUrlWith(OrElse(e.NEXTAUTH_URL, T_defaultApp), originalUrl)

(***************************************************************************)
(* ForwardAuth GET of app/page.tsx (lines 114-223).                        *)
(***************************************************************************)
\* the original URL with the forwarded URI left out
OriginalUrlNoUri(r) ==
  LET forwardedHost == r.xfHost
      forwardedProto == OrElse(r.xfProto, T_https)
  IN  IF Truthy(forwardedHost)
        THEN forwardedProto \o T_slashes \o forwardedHost \o <<"/">>
        ELSE r.url

\* the original URL rebuilt from the X-Forwarded-* headers (lines 117-124)
OriginalUrl(r) ==
  LET forwardedHost == r.xfHost
      forwardedProto == OrElse(r.xfProto, T_https)
      forwardedUri == OrElse(r.xfUri, <<"/">>)
  IN  IF Truthy(forwardedHost)
        THEN forwardedProto \o T_slashes \o forwardedHost \o forwardedUri
        ELSE r.url

\* the original URL of the catch block (lines 205-212)
CatchOriginalUrl(r) ==
  LET forwardedHost == r.xfHost
      forwardedProto == OrElse(r.xfProto, T_https)
      forwardedUri == OrElse(r.xfUri, <<"/">>)
  IN  IF Truthy(forwardedHost)
        THEN forwardedProto \o T_slashes \o forwardedHost \o forwardedUri
        ELSE <<"/">>

\* a 302 response that also clears sb-access-token
DeniedClearsCookie(loginUrl) ==
  Response(302, "Location" :> loginUrl,
           <<[name |-> T_accessToken, value |-> <<>>, maxAge |-> 0]>>)

\* the 302 response to the login page
Denied(loginUrl) == Response(302, "Location" :> loginUrl, <<>>)

\* the identity headers without the pass-through of the Cookie header; an
\* exception (user undefined, a header value that is no ByteString) leaves it
IdentityHeaders(user) ==
  IF user = NoUser THEN Threw
  ELSE LET email == OrElse(user.email, <<>>)
           userName == OrElse(user.name, <<>>)
           encodedUserName == IF userName # <<>> THEN Base64(Utf8(userName)) ELSE <<>>
       IN  IF ~IsByteString(user.id) \/ ~IsByteString(email) THEN Threw
           ELSE Returned(("X-User-Id" :> user.id) @@ ("X-User-Email" :> email)
                         @@ ("X-User-Name" :> encodedUserName)
                         @@ ("X-User-Name-Encoding" :> <<"b", "a", "s", "e", "6", "4">>))

\* response.headers.set('Cookie', cookieHeader) when the request has one
WithCookieHeader(headers, r) ==
  LET cookieHeader == CookieHeader(r.cookies)
  IN  IF Truthy(cookieHeader) THEN headers @@ ("Cookie" :> cookieHeader) ELSE headers

\* the Set-Cookie of the renewed access token (lines 162-168)
AccessTokenCookie(newSession, e) ==
  [name |-> T_accessToken, value |-> newSession.access_token,
   domain |-> OrElse(e.COOKIE_DOMAIN, T_dotLocalhost), httpOnly |-> TRUE,
   secure |-> (e.COOKIE_SECURE = T_true), sameSite |-> T_lax,
   maxAge |-> newSession.expires_in]

\* the try block (lines 115-198); gs and rs are what getSession and
\* refreshSession of the identity provider do when they are called
ForwardAuthTry(r, e, gs, rs) ==
  LET originalUrl == OriginalUrl(r)
      sessionData == validateSession(gs)
      refreshToken == CookieValue(r.cookies, T_refreshToken)
      newSession == refreshSession(rs)
      log1 == <<Call("getSession", gs)>>
      log2 == log1 \o <<Call("refreshSession", rs)>>
  IN  IF sessionData # NoSession
        THEN LET h == IdentityHeaders(sessionData.user)
             IN  IF h.threw THEN HandlerThrew(log1)
                 ELSE Handled(Response(200, WithCookieHeader(h.value, r), <<>>), log1)
      ELSE IF Truthy(refreshToken) /\ newSession # NoSession
        THEN LET h == IdentityHeaders(newSession.user)
             IN  IF h.threw THEN HandlerThrew(log2)
                 ELSE Handled(Response(200, WithCookieHeader(h.value, r),
                                       <<AccessTokenCookie(newSession, e)>>), log2)
      ELSE Handled(Denied(generateLoginUrl(originalUrl, e)),
                   IF Truthy(refreshToken) THEN log2 ELSE log1)

\* a catch block that tries a refresh of its own
ForwardAuthCatchRetries(r, e, t) ==
  IF t.threw
    THEN Handled(Denied(generateLoginUrl(CatchOriginalUrl(r), e)),
                 t.calls \o <<Call("refreshSession", ProviderThrew)>>)
    ELSE t

\* the catch block (lines 200-222)
ForwardAuthCatch(r, e, t) ==
  IF t.threw
    THEN Handled(Denied(generateLoginUrl(CatchOriginalUrl(r), e)), t.calls)
    ELSE t

\* GET with its catch block
ForwardAuthGET(r, e, gs, rs) == ForwardAuthCatch(r, e, ForwardAuthTry(r, e, gs, rs))

\* HEAD: the health check
ForwardAuthHEAD == Handled(Response(200, <<>>, <<>>), <<>>)

(***************************************************************************)
(* ForwardAuth GET of app/api/auth/route.ts (lines 10-93), which uses      *)
(* lib/auth.ts.                                                            *)
(***************************************************************************)
\* the headers of NextResponse.next() with the identity headers set on them
RouteIdentityHeaders(user) ==
  IF user = NoUser THEN Threw
  ELSE LET email == OrElse(user.email, <<>>)
           userName == OrElse(user.name, <<>>)
       IN  IF ~IsByteString(user.id) \/ ~IsByteString(email) \/ ~IsByteString(userName)
             THEN Threw
           ELSE Returned(("x-middleware-next" :> <<"1">>) @@ ("X-User-Id" :> user.id)
                         @@ ("X-User-Email" :> email) @@ ("X-User-Name" :> userName))

\* the Set-Cookie of the renewed access token (lines 50-56)
RouteAccessTokenCookie(newSession, e) ==
  [name |-> T_accessToken, value |-> newSession.access_token,
   domain |-> OrElse(e.COOKIE_DOMAIN, <<".">> \o T_mydomain), httpOnly |-> TRUE,
   secure |-> (e.COOKIE_SECURE = T_true), sameSite |-> T_lax,
   maxAge |-> newSession.expires_in]

\* the try block (lines 11-78)
RouteForwardAuthTry(r, e, gs, rs) ==
  LET originalUrl == OriginalUrl(r)
      sessionData == validateSession(gs)
      refreshToken == CookieValue(r.cookies, T_refreshToken)
      newSession == refreshSession(rs)
      log1 == <<Call("getSession", gs)>>
      log2 == log1 \o <<Call("refreshSession", rs)>>
  IN  IF sessionData # NoSession
        THEN LET h == RouteIdentityHeaders(sessionData.user)
             IN  IF h.threw THEN HandlerThrew(log1)
                 ELSE Handled(Response(200, h.value, <<>>), log1)
      ELSE IF Truthy(refreshToken) /\ newSession # NoSession
        THEN LET h == RouteIdentityHeaders(newSession.user)
             IN  IF h.threw THEN HandlerThrew(log2)
                 ELSE Handled(Response(200, h.value,
                                       <<RouteAccessTokenCookie(newSession, e)>>), log2)
      ELSE Handled(Denied(generateLoginUrlLib(originalUrl, e)),
                   IF Truthy(refreshToken) THEN log2 ELSE log1)

\* the catch block (lines 80-92)
RouteForwardAuthCatch(r, e, t) ==
  IF t.threw
    THEN Handled(Denied(generateLoginUrlLib(r.url, e)), t.calls)
    ELSE t

\* GET with its catch block
RouteForwardAuthGET(r, e, gs, rs) ==
  RouteForwardAuthCatch(r, e, RouteForwardAuthTry(r, e, gs, rs))

(***************************************************************************)
(* Configuration: process.env, read when a handler runs and never written. *)
(***************************************************************************)
\* 'https://ab.b': the project reference is "ab"
T_supabaseUrl == T_https \o T_slashes \o <<"a", "b", ".", "b">>
T_appUrl == T_https \o T_slashes \o <<"s", ".", "b">>

EnvDefault ==
  [ALLOWED_DOMAINS |-> Null, NEXT_APP_URL |-> Null, NEXTAUTH_URL |-> Null,
   COOKIE_DOMAIN |-> Null, COOKIE_SECURE |-> Null, NODE_ENV |-> Null,
   NEXT_PUBLIC_SUPABASE_URL |-> T_supabaseUrl]

EnvProduction ==
  [ALLOWED_DOMAINS |-> <<"*", ".", "b">>, NEXT_APP_URL |-> T_appUrl,
   NEXTAUTH_URL |-> T_appUrl, COOKIE_DOMAIN |-> <<".", "b">>,
   COOKIE_SECURE |-> T_true, NODE_ENV |-> T_production,
   NEXT_PUBLIC_SUPABASE_URL |-> T_supabaseUrl]

(***************************************************************************)
(* The ForwardAuth endpoint as a state machine: a request arrives, the     *)
(* handler answers it, the response is sent.  Handlers keep no state       *)
(* between requests.                                                       *)
(***************************************************************************)
\* the URL of the checkpoint itself: 'http://a/v'
T_ownUrl == T_http \o T_slashes \o <<"a", "/", "v">>

ForwardAuthRequests ==
  [handler : {"ForwardAuth"}, impl : {"page", "route"}, method : {"GET"},
   url : {T_ownUrl},
   xfHost : {Null, <<>>, <<"a", ".", "b">>},
   xfProto : {Null, T_http},
   xfUri : {Null, <<"/", "p", "?", "x", "=", "1">>},
   cookies : {<<>>, <<<<T_refreshToken, <<>>>>>>, <<<<T_refreshToken, <<"r">>>>>>,
              <<<<T_accessToken, <<"t">>>>, <<T_refreshToken, <<"r">>>>>>}]
  \cup [handler : {"ForwardAuth"}, impl : {"page", "route"}, method : {"HEAD"},
        url : {T_ownUrl}]

Idle == req = NoRequest /\ resp = NoResponse
Pending == req # NoRequest /\ resp = NoResponse

InitForwardAuth ==
  /\ env \in {EnvDefault, EnvProduction}
  /\ req = NoRequest
  /\ calls = <<>>
  /\ resp = NoResponse

ReceiveForwardAuth ==
  /\ Idle
  /\ req' \in ForwardAuthRequests
  /\ UNCHANGED <<env, calls, resp>>

Answer(h) ==
  /\ resp' = h.resp
  /\ calls' = h.calls
  /\ UNCHANGED <<env, req>>

HandleForwardAuthGET ==
  /\ Pending /\ req.handler = "ForwardAuth" /\ req.impl = "page" /\ req.method = "GET"
  /\ \E gs \in ProviderOutcomes, rs \in ProviderOutcomes :
       Answer(ForwardAuthGET(req, env, gs, rs))

HandleRouteForwardAuthGET ==
  /\ Pending /\ req.handler = "ForwardAuth" /\ req.impl = "route" /\ req.method = "GET"
  /\ \E gs \in ProviderOutcomes, rs \in ProviderOutcomes :
       Answer(RouteForwardAuthGET(req, env, gs, rs))

HandleForwardAuthHEAD ==
  /\ Pending /\ req.handler = "ForwardAuth" /\ req.method = "HEAD"
  /\ Answer(ForwardAuthHEAD)

\* the response is sent; nothing of the request is kept
Complete ==
  /\ resp # NoResponse
  /\ req' = NoRequest
  /\ resp' = NoResponse
  /\ calls' = <<>>
  /\ UNCHANGED env

NextForwardAuth ==
  \/ ReceiveForwardAuth
  \/ HandleForwardAuthGET
  \/ HandleRouteForwardAuthGET
  \/ HandleForwardAuthHEAD
  \/ Complete

SpecForwardAuth == InitForwardAuth /\ [][NextForwardAuth]_vars

(***************************************************************************)
(* CookieManager: setAuthCookie and clearAuthCookie.                       *)
(***************************************************************************)
\* new URL(supabaseUrl).hostname.split('.')[0]
ProjectRef(e) == Split(ParseURL(e.NEXT_PUBLIC_SUPABASE_URL).hostname, ".")[1]

\* `sb-${projectRef}-auth-token`
AuthCookieName(e) ==
  <<"s", "b", "-">> \o ProjectRef(e)
  \o <<"-", "a", "u", "t", "h", "-", "t", "o", "k", "e", "n">>

\* JSON.stringify of the six session fields: a field that is undefined is left out
SessionJson(session) ==
  [f \in {"refresh_token", "expires_in", "expires_at", "token_type"}
          \cup (IF session.access_token = Null THEN {} ELSE {"access_token"})
          \cup (IF session.user = NoUser THEN {} ELSE {"user"})
     |-> session[f]]

\* setAuthCookie of part_000: the directive put on the response
setAuthCookie(session, e) ==
  [name |-> AuthCookieName(e), value |-> SessionJson(session), httpOnly |-> FALSE,
   secure |-> (e.NODE_ENV = T_production), sameSite |-> T_lax,
   maxAge |-> session.expires_in, path |-> <<"/">>,
   domain |-> OrElse(e.COOKIE_DOMAIN, T_dotLocalhost)]

\* clearAuthCookie with the Domain attribute left out
clearAuthCookieNoDomain(e) ==
  [name |-> AuthCookieName(e), value |-> <<>>, maxAge |-> 0, path |-> <<"/">>]

\* clearAuthCookie of part_000
clearAuthCookie(e) ==
  [name |-> AuthCookieName(e), value |-> <<>>, maxAge |-> 0, path |-> <<"/">>,
   domain |-> OrElse(e.COOKIE_DOMAIN, T_dotLocalhost)]

\* setAuthCookie of lib/auth.ts: no Domain attribute
setAuthCookieLib(session, e) ==
  [name |-> AuthCookieName(e), value |-> SessionJson(session), httpOnly |-> FALSE,
   secure |-> (e.NODE_ENV = T_production), sameSite |-> T_lax,
   maxAge |-> session.expires_in, path |-> <<"/">>]

\* clearAuthCookie of lib/auth.ts
clearAuthCookieLib(e) ==
  [name |-> AuthCookieName(e), value |-> <<>>, maxAge |-> 0, path |-> <<"/">>]

(***************************************************************************)
(* Callback GET of part_003 and of app/api/auth/callback/route.ts, which   *)
(* differ in the base of their redirects and in the lib/auth they import.  *)
(***************************************************************************)
T_noCode == <<"n", "o", "_", "c", "o", "d", "e">>
T_noSession == <<"n", "o", "_", "s", "e", "s", "s", "i", "o", "n">>
T_unexpectedError == <<"u", "n", "e", "x", "p", "e", "c", "t", "e", "d", "_", "e", "r", "r", "o", "r">>
T_loginError == T_login \o <<"?", "e", "r", "r", "o", "r", "=">>

\* NextResponse.redirect(url): 307 with the Location
RedirectResponse(url, cookies) ==
  IF ~url.ok THEN Threw
  ELSE Returned(Response(307, "Location" :> Href(url), cookies))

\* NextResponse.redirect(new URL(target, base)); an exception leaves it when
\* the URL cannot be built
Redirect(target, base, cookies) == RedirectResponse(ResolveURL(target, base), cookies)

\* searchParams.get('redirect') || searchParams.get('state')
RedirectTo(r) == IF Truthy(r.redirect) THEN r.redirect ELSE r.state

\* the choice of the redirect target with the allow-list test left out
FinalRedirectUrlUnchecked(redirectTo, valid) ==
  IF Truthy(redirectTo) THEN redirectTo ELSE T_dashboard

\* the choice of the redirect target (lines 42-47); valid is the verdict of
\* isValidRedirectUrl(redirectTo), which is not called for a falsy redirectTo
FinalRedirectUrl(redirectTo, valid) ==
  IF Truthy(redirectTo) /\ valid THEN redirectTo ELSE T_dashboard

\* the tests on the exchange without the test of `error`
ExchangeResultNoErrorTest(ex) ==
  IF ex.kind = "threw" THEN "threw"
  ELSE IF ex.session = NoSession THEN "no_session"
  ELSE "session"

\* the tests on what exchangeCodeForSession did (lines 26-40)
ExchangeResult(ex) ==
  IF ex.kind = "threw" THEN "threw"
  ELSE IF ex.error # Null THEN "error"
  ELSE IF ex.session = NoSession THEN "no_session"
  ELSE "session"

\* the base of every redirect: NEXT_APP_URL in part_003, request.url in
\* app/api/auth/callback/route.ts
CallbackBaseUrl(r, e) ==
  IF r.impl = "route" THEN r.url ELSE OrElse(e.NEXT_APP_URL, T_defaultApp)

\* isValidRedirectUrl as imported by the handler
CallbackIsValid(url, r, e) ==
  IF r.impl = "route" THEN isValidRedirectUrlLib(url) ELSE isValidRedirectUrl(url, e)

\* setAuthCookie as imported by the handler
CallbackAuthCookie(session, r, e) ==
  IF r.impl = "route" THEN setAuthCookieLib(session, e) ELSE setAuthCookie(session, e)

\* a handler step that gave a response or threw
Step(response, log) ==
  IF response.threw THEN HandlerThrew(log) ELSE Handled(response.value, log)

\* lines 42-59: the session is there
CallbackSucceed(r, e, redirectTo, valid, ex) ==
  IF valid.threw
    THEN HandlerThrew(<<Call("exchangeCodeForSession", ex)>>)
    ELSE Step(Redirect(FinalRedirectUrl(redirectTo, valid.value), CallbackBaseUrl(r, e),
                       <<CallbackAuthCookie(ex.session, r, e)>>),
              <<Call("exchangeCodeForSession", ex)>>)

\* lines 26-59: the code has been exchanged, result is ExchangeResult(ex)
CallbackExchanged(r, e, ex, result) ==
  IF result = "threw" THEN HandlerThrew(<<Call("exchangeCodeForSession", ex)>>)
  ELSE IF result = "session"
    THEN CallbackSucceed(r, e, RedirectTo(r),
                         IF Truthy(RedirectTo(r))
                           THEN CallbackIsValid(RedirectTo(r), r, e)
                           ELSE Returned(FALSE),
                         ex)
  ELSE Step(Redirect(T_loginError \o (IF result = "error"
                                        THEN EncodeURIComponent(ex.error)
                                        ELSE T_noSession),
                     CallbackBaseUrl(r, e), <<>>),
            <<Call("exchangeCodeForSession", ex)>>)

\* the try block without the test of `code`
CallbackTryNoCodeTest(r, e, ex) == CallbackExchanged(r, e, ex, ExchangeResult(ex))

\* the try block (lines 12-59)
CallbackTry(r, e, ex) ==
  IF ~Truthy(r.code)
    THEN Step(Redirect(T_loginError \o T_noCode, CallbackBaseUrl(r, e), <<>>), <<>>)
    ELSE CallbackExchanged(r, e, ex, ExchangeResult(ex))

\* the catch block (lines 61-67)
CallbackCatch(r, e, t) ==
  IF t.threw
    THEN Handled(Redirect(T_loginError \o T_unexpectedError,
                          CallbackBaseUrl(r, e), <<>>).value, t.calls)
    ELSE t

\* GET with its catch block
CallbackGET(r, e, ex) == CallbackCatch(r, e, CallbackTry(r, e, ex))

(***************************************************************************)
(* Logout POST and GET of app/page.tsx (lines 65-104).                     *)
(***************************************************************************)
SignOutOutcomes ==
  {ProviderThrew, [kind |-> "returned", error |-> Null],
   [kind |-> "returned", error |-> T_badCode]}

\* the catch block without clearAuthCookie
LogoutCatchNoClear(r, e) == Redirect(T_login, r.url, <<>>).value

\* the catch block (lines 88-96)
LogoutCatch(r, e) == Redirect(T_login, r.url, <<clearAuthCookie(e)>>).value

\* lines 76-86 gave a response, or an exception went to the catch block
LogoutAnswer(r, e, so, response) ==
  IF so.kind = "threw" \/ response.threw
    THEN Handled(LogoutCatch(r, e), <<Call("signOut", so)>>)
    ELSE Handled(response.value, <<Call("signOut", so)>>)

\* POST with the redirect parameter put to isValidRedirectUrl first
LogoutPOSTValidated(r, e, so) ==
  LogoutAnswer(r, e, so,
               Redirect(IF Truthy(r.redirect) /\ isValidRedirectUrl(r.redirect, e).value
                          THEN r.redirect ELSE T_login,
                        r.url, <<clearAuthCookie(e)>>))

\* POST: so is what supabase.auth.signOut() does
LogoutPOST(r, e, so) ==
  LogoutAnswer(r, e, so,
               Redirect(OrElse(r.redirect, T_login), r.url, <<clearAuthCookie(e)>>))

\* GET delegates to POST
LogoutGET(r, e, so) == LogoutPOST(r, e, so)

(***************************************************************************)
(* The callback endpoint as a state machine.                               *)
(***************************************************************************)
\* 'http://a.b', 'http://ab', 'https://a.a/p', 'http://localhost/p'
T_subUrl == T_http \o T_slashes \o <<"a", ".", "b">>
T_evilUrl == T_http \o T_slashes \o <<"a", "b">>
T_otherUrl == T_https \o T_slashes \o <<"a", ".", "a", "/", "p">>
T_localUrl == T_http \o T_slashes \o T_localhost \o <<"/", "p">>

RedirectParams ==
  {Null, <<>>, T_dashboard, T_subUrl, T_evilUrl, T_otherUrl, T_localUrl,
   T_http \o T_slashes, <<"a", ".", "b">>, <<"/", "/", "a", ".", "b">>}

CallbackRequests ==
  [handler : {"callback"}, impl : {"part_003", "route"}, method : {"GET", "POST"},
   url : {T_ownUrl},
   code : {Null, <<>>, <<"c">>},
   redirect : RedirectParams,
   state : {Null, T_subUrl, T_otherUrl}]

CallbackEnvs ==
  {EnvDefault, EnvProduction,
   [EnvDefault EXCEPT !.ALLOWED_DOMAINS = <<"b">>],
   [EnvProduction EXCEPT !.ALLOWED_DOMAINS = <<"a", ".", "a", ",", " ">> \o T_localhost]}

InitCallback ==
  /\ env \in CallbackEnvs
  /\ req = NoRequest
  /\ calls = <<>>
  /\ resp = NoResponse

ReceiveCallback ==
  /\ Idle
  /\ req' \in CallbackRequests
  /\ UNCHANGED <<env, calls, resp>>

\* GET of part_003; its POST delegates to GET
HandleCallbackGET ==
  /\ Pending /\ req.handler = "callback" /\ req.impl = "part_003"
  /\ \E ex \in ProviderOutcomes : Answer(CallbackGET(req, env, ex))

\* GET of app/api/auth/callback/route.ts; its POST delegates to GET
HandleRouteCallbackGET ==
  /\ Pending /\ req.handler = "callback" /\ req.impl = "route"
  /\ \E ex \in ProviderOutcomes : Answer(CallbackGET(req, env, ex))

NextCallback ==
  \/ ReceiveCallback
  \/ HandleCallbackGET
  \/ HandleRouteCallbackGET
  \/ Complete

SpecCallback == InitCallback /\ [][NextCallback]_vars

(***************************************************************************)
(* The logout endpoint as a state machine.                                 *)
(***************************************************************************)
LogoutRequests ==
  [handler : {"logout"}, impl : {"page"}, method : {"GET", "POST"},
   url : {T_ownUrl},
   redirect : RedirectParams]

InitLogout ==
  /\ env \in {EnvDefault, EnvProduction}
  /\ req = NoRequest
  /\ calls = <<>>
  /\ resp = NoResponse

ReceiveLogout ==
  /\ Idle
  /\ req' \in LogoutRequests
  /\ UNCHANGED <<env, calls, resp>>

HandleLogoutPOST ==
  /\ Pending /\ req.handler = "logout" /\ req.method = "POST"
  /\ \E so \in SignOutOutcomes : Answer(LogoutPOST(req, env, so))

HandleLogoutGET ==
  /\ Pending /\ req.handler = "logout" /\ req.method = "GET"
  /\ \E so \in SignOutOutcomes : Answer(LogoutGET(req, env, so))

NextLogout ==
  \/ ReceiveLogout
  \/ HandleLogoutPOST
  \/ HandleLogoutGET
  \/ Complete

SpecLogout == InitLogout /\ [][NextLogout]_vars

(***************************************************************************)
(* RedirectPolicy on its own: isValidRedirectUrl applied to enumerated     *)
(* URLs under enumerated allow-lists.                                      *)
(***************************************************************************)
HostChars == {"a", "b", "."}
BaseChars == {"b", "."}

Bases == SeqsUpTo(BaseChars, MaxBaseLen)

\* values of ALLOWED_DOMAINS: unset, one entry (bare or padded with blanks),
\* two entries, a trailing comma
AllowListValues ==
  {Null}
  \cup Bases \cup {<<"B">>, T_localhost}
  \cup {<<"*", ".">> \o b : b \in Bases \cup {<<"B">>}}
  \cup {<<" ">> \o d \o <<" ">> : d \in {<<"b">>, <<"*", ".", "b">>}}
  \cup {d1 \o <<",">> \o d2 : d1 \in {<<"a">>, <<"*", ".", "a">>},
                             d2 \in {<<"b">>, <<"*", ".", "b">>, <<>>}}

PolicyEnvs == {[EnvDefault EXCEPT !.ALLOWED_DOMAINS = v] : v \in AllowListValues}

\* candidate URLs: every host behind http://, and strings of other shapes
CandidateUrls ==
  {T_http \o T_slashes \o h : h \in SeqsUpTo(HostChars, MaxHostLen) \ {<<>>}}
  \cup
  {<<>>, T_dashboard, <<"a", ".", "b">>, <<"b">>, <<"/", "/", "a", ".", "b">>,
   T_http \o T_slashes, T_https \o T_slashes \o <<"/">>, T_http \o <<":">>,
   T_https \o T_slashes \o <<"a", ".", "b", "/", "p", "?", "x", "=", "1">>,
   T_http \o T_slashes \o <<"B">>,
   T_http \o T_slashes \o <<"u", "@", "b">>,
   T_http \o T_slashes \o <<"b", ":", "8">>,
   T_http \o T_slashes \o <<"b", ":", "x">>,
   <<"x", ":", "/", "/", "b">>,
   <<"m", "a", "i", "l", "t", "o", ":", "a", "@", "b">>,
   T_localUrl, T_http \o T_slashes \o <<"a", ".">> \o T_localhost,
   T_http \o T_slashes \o <<"a">> \o T_localhost,
   T_https \o T_slashes \o T_mydomain,
   T_https \o T_slashes \o <<"a", ".">> \o T_mydomain,
   T_https \o T_slashes \o <<"a">> \o T_mydomain}

PolicyRequests ==
  [handler : {"isValidRedirectUrl"}, impl : {"part_000", "lib"}, url : CandidateUrls]

\* what a call of a function gave: its value, or an exception
Result(r) == [kind |-> "return", threw |-> r.threw, value |-> r.value]

InitPolicy ==
  /\ env \in PolicyEnvs
  /\ req = NoRequest
  /\ calls = <<>>
  /\ resp = NoResponse

CallPolicy ==
  /\ Idle
  /\ req' \in PolicyRequests
  /\ UNCHANGED <<env, calls, resp>>

\* isValidRedirectUrl of part_000 runs
RunIsValidRedirectUrl ==
  /\ Pending /\ req.handler = "isValidRedirectUrl" /\ req.impl = "part_000"
  /\ resp' = Result(isValidRedirectUrl(req.url, env))
  /\ UNCHANGED <<env, req, calls>>

\* isValidRedirectUrl of lib/auth.ts runs
RunIsValidRedirectUrlLib ==
  /\ Pending /\ req.handler = "isValidRedirectUrl" /\ req.impl = "lib"
  /\ resp' = Result(isValidRedirectUrlLib(req.url))
  /\ UNCHANGED <<env, req, calls>>

NextPolicy ==
  \/ CallPolicy
  \/ RunIsValidRedirectUrl
  \/ RunIsValidRedirectUrlLib
  \/ Complete

SpecPolicy == InitPolicy /\ [][NextPolicy]_vars

(***************************************************************************)
(* CookieManager on its own: setAuthCookie and clearAuthCookie called      *)
(* under one configuration; calls keeps the last MaxCookieCalls calls with *)
(* the directive each put on its response.                                 *)
(***************************************************************************)
CookieSessions ==
  {Session(User(<<"2">>, <<"e", "@", "b">>, <<"A">>), <<"t", "2">>, 3600),
   Session(NoUser, <<"t">>, 60)}

CookieRequests ==
  [handler : {"setAuthCookie"}, impl : {"part_000", "lib"}, session : CookieSessions]
  \cup [handler : {"clearAuthCookie"}, impl : {"part_000", "lib"}]

CookieEnvs ==
  {EnvDefault, EnvProduction, [EnvDefault EXCEPT !.COOKIE_DOMAIN = <<".", "a">>]}

\* response.cookies.set(name, value, options) as seen by the caller
CookieCall(r, directive) ==
  [op |-> r.handler, impl |-> r.impl, out |-> directive]

Remember(log, call) ==
  IF Len(log) < MaxCookieCalls THEN Append(log, call) ELSE Append(Tail(log), call)

InitCookies ==
  /\ env \in CookieEnvs
  /\ req = NoRequest
  /\ calls = <<>>
  /\ resp = NoResponse

CallCookie ==
  /\ Idle
  /\ req' \in CookieRequests
  /\ UNCHANGED <<env, calls, resp>>

SetCookie(directive) ==
  /\ resp' = Response(307, <<>>, <<directive>>)
  /\ calls' = Remember(calls, CookieCall(req, directive))
  /\ UNCHANGED <<env, req>>

RunSetAuthCookie ==
  /\ Pending /\ req.handler = "setAuthCookie" /\ req.impl = "part_000"
  /\ SetCookie(setAuthCookie(req.session, env))

RunSetAuthCookieLib ==
  /\ Pending /\ req.handler = "setAuthCookie" /\ req.impl = "lib"
  /\ SetCookie(setAuthCookieLib(req.session, env))

RunClearAuthCookie ==
  /\ Pending /\ req.handler = "clearAuthCookie" /\ req.impl = "part_000"
  /\ SetCookie(clearAuthCookie(env))

RunClearAuthCookieLib ==
  /\ Pending /\ req.handler = "clearAuthCookie" /\ req.impl = "lib"
  /\ SetCookie(clearAuthCookieLib(env))

\* the response is sent
SendCookie ==
  /\ resp # NoResponse
  /\ req' = NoRequest
  /\ resp' = NoResponse
  /\ UNCHANGED <<env, calls>>

NextCookies ==
  \/ CallCookie
  \/ RunSetAuthCookie
  \/ RunSetAuthCookieLib
  \/ RunClearAuthCookie
  \/ RunClearAuthCookieLib
  \/ SendCookie

SpecCookies == InitCookies /\ [][NextCookies]_vars

(***************************************************************************)
(* Vocabulary of the properties.                                           *)
(***************************************************************************)
\* a provider call returned a session and no error, and did not throw
HasSession(out) ==
  out.kind = "returned" /\ out.session # NoSession /\ out.error = Null

\* a ForwardAuth GET request has been answered
AnsweredGET ==
  req.handler = "ForwardAuth" /\ req.method = "GET" /\ resp.kind = "http"

GetSessionOut == calls[1].out
RefreshCalled == Len(calls) = 2 /\ calls[2].op = "refreshSession"
RefreshOut == calls[2].out

\* the inverse of the URLSearchParams serialisation
RECURSIVE FormDecode(_)
FormDecode(t) ==
  IF t = <<>> THEN <<>>
  ELSE IF Head(t) = "+" THEN <<" ">> \o FormDecode(Tail(t))
  ELSE IF Head(t) = "%" THEN
    <<CHOOSE c \in {":", "/", "?", "=", "&", "@", "#", " "} : Hex(c) = SubSeq(t, 1, 3)>>
    \o FormDecode(SubSeq(t, 4, Len(t)))
  ELSE <<Head(t)>> \o FormDecode(Tail(t))

\* the configured base of the login page: NEXT_APP_URL for app/page.tsx,
\* NEXTAUTH_URL for app/api/auth/route.ts, http://localhost:3000 when unset
LoginBase ==
  IF req.impl = "route" THEN OrElse(env.NEXTAUTH_URL, T_defaultApp)
  ELSE OrElse(env.NEXT_APP_URL, T_defaultApp)

LoginRedirectPrefix == LoginBase \o T_login \o <<"?">> \o T_redirect \o <<"=">>

\* the response is a redirect to <login-base>/login?redirect=<url>
RedirectsToLoginFor(url) ==
  /\ "Location" \in DOMAIN resp.headers
  /\ StartsWith(resp.headers["Location"], LoginRedirectPrefix)
  /\ FormDecode(Slice(resp.headers["Location"], Len(LoginRedirectPrefix))) = url

(***************************************************************************)
(* C1.  Fail closed: ForwardAuth GET answers 200 only if, in that request, *)
(* getSession returned a session with no error and did not throw, or       *)
(* refreshSession was called and returned a session with no error; every   *)
(* other execution, those in which a step throws included, is answered 302.*)
(***************************************************************************)
C1_FailClosed ==
  AnsweredGET =>
    /\ resp.status \in {200, 302}
    /\ resp.status = 200 =>
         HasSession(GetSessionOut) \/ (RefreshCalled /\ HasSession(RefreshOut))
    /\ ~(HasSession(GetSessionOut) \/ (RefreshCalled /\ HasSession(RefreshOut))) =>
         resp.status = 302

\* C1 witness: a provider call threw, another returned an error next to a
\* session, and the answer is 302
C1_Witness ==
  /\ AnsweredGET /\ RefreshCalled
  /\ GetSessionOut.kind = "returned" /\ GetSessionOut.error # Null
  /\ GetSessionOut.session # NoSession
  /\ RefreshOut.kind = "threw"
  /\ resp.status = 302

(***************************************************************************)
(* C7.  As claimed: a Denied ForwardAuth GET (no session, and no refresh   *)
(* token or a failed refresh) answers 302 to                               *)
(* <login-base>/login?redirect=<original URL>, the original URL being      *)
(* proto://host+uri whenever the X-Forwarded-Host header is present, and   *)
(* the request's own URL when it is absent.                                *)
(***************************************************************************)
DeniedCase ==
  /\ AnsweredGET
  /\ ~HasSession(GetSessionOut)
  /\ \/ ~Truthy(CookieValue(req.cookies, T_refreshToken))
     \/ RefreshCalled /\ ~HasSession(RefreshOut)

ForwardedUrl ==
  OrElse(req.xfProto, T_https) \o T_slashes \o req.xfHost \o OrElse(req.xfUri, <<"/">>)

C7_AsClaimed ==
  DeniedCase =>
    /\ resp.status = 302
    /\ RedirectsToLoginFor(IF req.xfHost # Null THEN ForwardedUrl ELSE req.url)

\* C7 amended: the forwarded URL is used when X-Forwarded-Host is present and
\* not empty; an absent or empty X-Forwarded-Host gives the request's own URL
C7_DeniedLocation ==
  DeniedCase =>
    /\ resp.status = 302
    /\ RedirectsToLoginFor(IF req.xfHost \notin {Null, <<>>} THEN ForwardedUrl
                           ELSE req.url)

\* C7 witness: a failed refresh behind a proxy that forwards host and URI
C7_Witness ==
  /\ DeniedCase /\ RefreshCalled
  /\ req.xfHost = <<"a", ".", "b">> /\ req.xfUri # Null /\ req.xfProto = Null
  /\ resp.status = 302

(***************************************************************************)
(* C8.  As claimed: when getSession yields no session, a non-empty         *)
(* sb-refresh-token cookie is present and refreshSession returns a new     *)
(* session (with its user), the answer is 200 with a Set-Cookie            *)
(* sb-access-token = the new access token (httpOnly, SameSite=Lax,         *)
(* Max-Age = expires_in) and identity headers of the refreshed user.       *)
(***************************************************************************)
RefreshSucceeded ==
  /\ AnsweredGET
  /\ ~HasSession(GetSessionOut)
  /\ Truthy(CookieValue(req.cookies, T_refreshToken))
  /\ RefreshCalled /\ HasSession(RefreshOut)
  /\ RefreshOut.session.user # NoUser

C8_AsClaimed ==
  RefreshSucceeded =>
    /\ resp.status = 200
    /\ \E i \in 1..Len(resp.cookies) :
         /\ resp.cookies[i].name = T_accessToken
         /\ resp.cookies[i].value = RefreshOut.session.access_token
         /\ resp.cookies[i].httpOnly
         /\ resp.cookies[i].sameSite = T_lax
         /\ resp.cookies[i].maxAge = RefreshOut.session.expires_in
    /\ resp.headers["X-User-Id"] = RefreshOut.session.user.id
    /\ resp.headers["X-User-Email"] = OrElse(RefreshOut.session.user.email, <<>>)

(***************************************************************************)
(* C9.  As claimed: every 200 answer of ForwardAuth GET carries the four   *)
(* identity headers X-User-Id, X-User-Email, X-User-Name and               *)
(* X-User-Name-Encoding; id and email are the session user's, verbatim,    *)
(* and an absent email or name gives an empty header value.                *)
(***************************************************************************)
AuthenticatedUser ==
  IF HasSession(GetSessionOut) THEN GetSessionOut.session.user
  ELSE RefreshOut.session.user

C9_AsClaimed ==
  (AnsweredGET /\ resp.status = 200) =>
    /\ {"X-User-Id", "X-User-Email", "X-User-Name", "X-User-Name-Encoding"}
         \subseteq DOMAIN resp.headers
    /\ resp.headers["X-User-Id"] = AuthenticatedUser.id
    /\ resp.headers["X-User-Email"] = OrElse(AuthenticatedUser.email, <<>>)
    /\ AuthenticatedUser.name = Null => resp.headers["X-User-Name"] = <<>>

(***************************************************************************)
(* Vocabulary of the callback, logout and policy properties.               *)
(***************************************************************************)
AnsweredCallback == req.handler = "callback" /\ resp.kind = "http"

\* the code exchange was made and gave a session, no error, no exception
ExchangeSucceeded ==
  AnsweredCallback /\ Len(calls) = 1 /\ HasSession(calls[1].out)

\* the caller-supplied return URL: the `redirect` parameter, else `state`
Supplied == IF Truthy(req.redirect) THEN req.redirect ELSE req.state

\* the verdict of the isValidRedirectUrl the handler imports
Verdict(url) ==
  IF req.impl = "route" THEN isValidRedirectUrlLib(url).value
  ELSE isValidRedirectUrl(url, env).value

\* the default landing page /dashboard on the handler's base
DefaultLanding ==
  Origin(ParseURL(IF req.impl = "route" THEN req.url
                  ELSE OrElse(env.NEXT_APP_URL, T_defaultApp))) \o T_dashboard

\* the response sets the AuthCookie of this deployment
SetsAuthCookie ==
  \E i \in 1..Len(resp.cookies) :
    resp.cookies[i].name = AuthCookieName(env) /\ resp.cookies[i].maxAge > 0

\* the response carries the directive that clears the AuthCookie
ClearsAuthCookie ==
  \E i \in 1..Len(resp.cookies) :
    /\ resp.cookies[i].name = AuthCookieName(env)
    /\ resp.cookies[i].value = <<>>
    /\ resp.cookies[i].maxAge = 0

AnsweredLogout == req.handler = "logout" /\ resp.kind = "http"

\* isValidRedirectUrl has been applied to a string that parses as a URL
PolicyRan == req.handler = "isValidRedirectUrl" /\ resp.kind = "return"
Hostname == ParseURL(req.url).hostname

\* h ends with "." followed by base
EndsWithDot(h, base) ==
  \E k \in 0..Len(h) : h = SubSeq(h, 1, k) \o <<".">> \o base

(***************************************************************************)
(* C2.  In every callback whose code exchange succeeds, the redirect       *)
(* target is the caller-supplied URL (redirect, else state) only if        *)
(* isValidRedirectUrl is true of it; in every other successful case        *)
(* (absent, malformed, host not allowed) it is the default /dashboard.     *)
(***************************************************************************)
C2_RedirectTarget ==
  ExchangeSucceeded =>
    /\ "Location" \in DOMAIN resp.headers
    /\ IF Truthy(Supplied) /\ Verdict(Supplied)
         THEN resp.headers["Location"] = Href(ParseURL(Supplied))
         ELSE resp.headers["Location"] = DefaultLanding

\* C2 witness: a successful exchange with redirect = http://ab under the
\* allow-list "b" goes to the default landing page
C2_Witness ==
  /\ ExchangeSucceeded
  /\ req.impl = "part_003"
  /\ req.redirect = T_evilUrl
  /\ env.ALLOWED_DOMAINS = <<"b">>
  /\ resp.headers["Location"] = DefaultLanding

(***************************************************************************)
(* C3.  Under an allow-list that holds the single wildcard entry *.base,   *)
(* isValidRedirectUrl is true of a URL with hostname h iff h = base or h   *)
(* ends with .base; a hostname that ends with base without the dot is      *)
(* rejected.                                                               *)
(***************************************************************************)
C3_Wildcard ==
  \A base \in Bases \cup {<<"B">>} :
    ( /\ PolicyRan /\ req.impl = "part_000"
      /\ env.ALLOWED_DOMAINS \in {<<"*", ".">> \o base,
                                  <<" ", "*", ".">> \o base \o <<" ">>}
      /\ ParseURL(req.url).ok )
    => /\ ~resp.threw
       /\ resp.value <=> (Hostname = base \/ EndsWithDot(Hostname, base))

\* C3 witness: under *.b the hostname ab is rejected
C3_Witness ==
  /\ PolicyRan /\ req.impl = "part_000"
  /\ env.ALLOWED_DOMAINS = <<"*", ".", "b">>
  /\ req.url = T_evilUrl
  /\ ~resp.value

(***************************************************************************)
(* C4.  As claimed: isValidRedirectUrl is true of a URL iff its hostname   *)
(* equals an allow-list entry or, for a wildcard entry *.base, equals base *)
(* or ends with .base; so under an allow-list of exact entries only, a     *)
(* hostname that is a proper subdomain of an entry (and equals no entry)   *)
(* is rejected.                                                            *)
(***************************************************************************)
ConfiguredEntries ==
  IF req.impl = "lib" THEN LibAllowedDomains ELSE AllowedDomains(env)

\* d is a host name: not empty, no empty label
IsHostName(d) ==
  /\ d # <<>> /\ d[1] # "." /\ d[Len(d)] # "."
  /\ \A i \in 1..(Len(d) - 1) : ~(d[i] = "." /\ d[i + 1] = ".")

\* h is label.d for one more label
ProperSubdomain(h, d) ==
  \E k \in 1..Len(h) :
    /\ h = SubSeq(h, 1, k) \o <<".">> \o d
    /\ \A i \in 1..k : h[i] # "."

C4_AsClaimed ==
  ( /\ PolicyRan /\ ParseURL(req.url).ok
    /\ \A i \in 1..Len(ConfiguredEntries) :
         /\ ~StartsWith(ConfiguredEntries[i], <<"*", ".">>)
         /\ Hostname # ConfiguredEntries[i]
    /\ \E i \in 1..Len(ConfiguredEntries) :
         /\ IsHostName(ConfiguredEntries[i])
         /\ ProperSubdomain(Hostname, ConfiguredEntries[i]) )
  => ~resp.value

(***************************************************************************)
(* C5.  For every string that does not parse as an absolute URL,           *)
(* isValidRedirectUrl returns false and no exception leaves it, whatever   *)
(* the allow-list.                                                         *)
(***************************************************************************)
C5_MalformedRejected ==
  (PolicyRan /\ ~ParseURL(req.url).ok) => (~resp.threw /\ ~resp.value)

\* C5 witness: the relative path /dashboard is rejected
C5_Witness ==
  /\ PolicyRan /\ req.impl = "part_000"
  /\ req.url = T_dashboard
  /\ ~ParseURL(req.url).ok
  /\ ~resp.threw /\ ~resp.value

(***************************************************************************)
(* C6.  Every response of the logout handler (POST, and GET which          *)
(* delegates to it) carries the directive that clears the AuthCookie: when *)
(* signOut succeeds, when it returns an error, and when it or a later step *)
(* throws.                                                                 *)
(***************************************************************************)
C6_LogoutClears == AnsweredLogout => ClearsAuthCookie

\* C6 witness: signOut threw and the cookie is cleared all the same
C6_Witness ==
  /\ AnsweredLogout
  /\ calls[1].out.kind = "threw"
  /\ ClearsAuthCookie

(***************************************************************************)
(* C10.  The callback sets the AuthCookie on its response iff a code was   *)
(* supplied and exchangeCodeForSession returned a session with no error    *)
(* and without throwing; no failure path sets it.                          *)
(***************************************************************************)
C10_CookieIffSuccess ==
  AnsweredCallback =>
    (SetsAuthCookie <=>
       (Truthy(req.code) /\ Len(calls) = 1 /\ HasSession(calls[1].out)))

\* C10 witness: the exchange threw and the response sets no AuthCookie
C10_Witness ==
  /\ AnsweredCallback
  /\ Truthy(req.code) /\ Len(calls) = 1 /\ calls[1].out.kind = "threw"
  /\ ~SetsAuthCookie

(***************************************************************************)
(* Vocabulary of the callback's failure paths.                             *)
(***************************************************************************)
\* the base the callback resolves its redirects against
CallbackBase ==
  IF req.impl = "route" THEN req.url ELSE OrElse(env.NEXT_APP_URL, T_defaultApp)

\* <base>/login?error=
LoginErrorPrefix == Origin(ParseURL(CallbackBase)) \o T_loginError

\* the response redirects to the login page with the single query parameter
\* error, whose decoded value is marker
RedirectsToLoginWithError(marker) ==
  /\ resp.status = 307
  /\ "Location" \in DOMAIN resp.headers
  /\ StartsWith(resp.headers["Location"], LoginErrorPrefix)
  /\ LET value == Slice(resp.headers["Location"], Len(LoginErrorPrefix))
     IN  /\ \A i \in 1..Len(value) : value[i] \notin {"&", "=", "#"}
         /\ FormDecode(value) = marker

(***************************************************************************)
(* C11.  Every failure path of the callback redirects to the login page    *)
(* with exactly one error marker: no code gives error=no_code and the      *)
(* provider is not called; a provider error gives error=<its message>; no  *)
(* session gives error=no_session; an exception gives                      *)
(* error=unexpected_error.                                                 *)
(***************************************************************************)
C11_ErrorMarkers ==
  AnsweredCallback =>
    /\ ~Truthy(req.code) => (calls = <<>> /\ RedirectsToLoginWithError(T_noCode))
    /\ Truthy(req.code) =>
         /\ Len(calls) = 1 /\ calls[1].op = "exchangeCodeForSession"
         /\ calls[1].out.kind = "threw" => RedirectsToLoginWithError(T_unexpectedError)
         /\ (calls[1].out.kind = "returned" /\ calls[1].out.error # Null) =>
              RedirectsToLoginWithError(calls[1].out.error)
         /\ ( /\ calls[1].out.kind = "returned" /\ calls[1].out.error = Null
              /\ calls[1].out.session = NoSession ) =>
              RedirectsToLoginWithError(T_noSession)

\* C11 witness: the provider returned the error 'bad code' next to a session
\* and the login page is given error=bad%20code
C11_Witness ==
  /\ AnsweredCallback /\ Truthy(req.code) /\ Len(calls) = 1
  /\ calls[1].out.kind = "returned" /\ calls[1].out.error = T_badCode
  /\ calls[1].out.session # NoSession
  /\ resp.headers["Location"]
       = LoginErrorPrefix \o <<"b", "a", "d", "%", "2", "0", "c", "o", "d", "e">>

(***************************************************************************)
(* C12.  Two ForwardAuth GET requests with the same URL and the same       *)
(* X-Forwarded-* headers that end unauthenticated for different reasons    *)
(* (no cookie, getSession returned an error or threw, the refresh returned *)
(* an error or no session or threw) get the same response: 302, the same   *)
(* Location, no Set-Cookie.  Stated against the response to the same       *)
(* request without any cookie, for which getSession returns no session.    *)
(***************************************************************************)
DenialWithoutCookie ==
  IF req.impl = "route"
    THEN RouteForwardAuthGET([req EXCEPT !.cookies = <<>>], env,
                             ProviderReturned(NoSession, Null), ProviderThrew).resp
    ELSE ForwardAuthGET([req EXCEPT !.cookies = <<>>], env,
                        ProviderReturned(NoSession, Null), ProviderThrew).resp

C12_SameDenial ==
  DeniedCase =>
    /\ resp = DenialWithoutCookie
    /\ resp.status = 302
    /\ DOMAIN resp.headers = {"Location"}
    /\ resp.cookies = <<>>

\* C12 witness: getSession threw, the refresh threw, and the response is the
\* one of a request without cookies
C12_Witness ==
  /\ DeniedCase /\ RefreshCalled
  /\ GetSessionOut.kind = "threw" /\ RefreshOut.kind = "threw"
  /\ req.cookies # <<>>
  /\ resp = DenialWithoutCookie

(***************************************************************************)
(* C13.  Under one configuration the directive of clearAuthCookie has the  *)
(* cookie name, Path and Domain of the directive of setAuthCookie, an      *)
(* empty value and Max-Age 0, and two calls of clearAuthCookie give the    *)
(* same directive; so the clear names the cookie the issue stored.         *)
(***************************************************************************)
\* the Domain attribute of a directive, null when it has none
DomainOf(c) == IF "domain" \in DOMAIN c THEN c.domain ELSE Null

C13_ClearMatchesSet ==
  \A i \in 1..Len(calls), j \in 1..Len(calls) :
    (calls[j].op = "clearAuthCookie" /\ calls[i].impl = calls[j].impl) =>
      /\ calls[j].out.value = <<>> /\ calls[j].out.maxAge = 0
      /\ calls[i].op = "clearAuthCookie" => calls[i].out = calls[j].out
      /\ calls[i].op = "setAuthCookie" =>
           /\ calls[i].out.name = calls[j].out.name
           /\ calls[i].out.path = calls[j].out.path
           /\ DomainOf(calls[i].out) = DomainOf(calls[j].out)

\* C13 witness: setAuthCookie then clearAuthCookie of part_000 with
\* COOKIE_DOMAIN = .a, both for sb-ab-auth-token on .a
C13_Witness ==
  /\ Len(calls) = 2
  /\ calls[1].op = "setAuthCookie" /\ calls[2].op = "clearAuthCookie"
  /\ calls[1].impl = "part_000" /\ calls[2].impl = "part_000"
  /\ calls[1].out.value # <<>> /\ calls[1].out.maxAge > 0
  /\ calls[2].out.name = <<"s", "b", "-", "a", "b", "-", "a", "u", "t", "h", "-", "t", "o", "k", "e", "n">>
  /\ calls[2].out.domain = <<".", "a">>
  /\ calls[1].out.domain = <<".", "a">>

(***************************************************************************)
(* Vocabulary of the X-User-Name header: what a reader of the header does  *)
(* to decode it.                                                           *)
(***************************************************************************)
\* the value of a character of the base64 alphabet
B64Value(c) == (CHOOSE i \in 1..Len(B64Alphabet) : B64Alphabet[i] = c) - 1

\* the bytes of a padded base64 text
RECURSIVE Base64Decode(_)
Base64Decode(t) ==
  IF Len(t) < 4 THEN <<>>
  ELSE LET b1 == (B64Value(t[1]) * 4) + (B64Value(t[2]) \div 16)
       IN  IF t[3] = "=" THEN <<b1>>
           ELSE LET b2 == ((B64Value(t[2]) % 16) * 16) + (B64Value(t[3]) \div 4)
                IN  IF t[4] = "=" THEN <<b1, b2>>
                    ELSE <<b1, b2, ((B64Value(t[3]) % 4) * 64) + B64Value(t[4])>>
                         \o Base64Decode(SubSeq(t, 5, Len(t)))

\* the character of a code point
CharOf(cp) ==
  CHOOSE c \in {"U+5F20", "U+00E9", "A", "e", "1", "2", "@", "?"} : CodePoint(c) = cp

\* the text of a UTF-8 byte sequence (code points below 0x10000)
RECURSIVE Utf8Decode(_)
Utf8Decode(bytes) ==
  IF bytes = <<>> THEN <<>>
  ELSE IF bytes[1] < 128
    THEN <<CharOf(bytes[1])>> \o Utf8Decode(Tail(bytes))
  ELSE IF bytes[1] < 224
    THEN <<CharOf(((bytes[1] - 192) * 64) + (bytes[2] - 128))>>
         \o Utf8Decode(SubSeq(bytes, 3, Len(bytes)))
  ELSE <<CharOf(((bytes[1] - 224) * 4096) + ((bytes[2] - 128) * 64) + (bytes[3] - 128))>>
       \o Utf8Decode(SubSeq(bytes, 4, Len(bytes)))

\* the request is authenticated: getSession gave a session, or the refresh
\* token cookie is there and the refresh gave one
Authenticated ==
  /\ AnsweredGET
  /\ \/ HasSession(GetSessionOut)
     \/ /\ Truthy(CookieValue(req.cookies, T_refreshToken))
        /\ RefreshCalled /\ HasSession(RefreshOut)

(***************************************************************************)
(* C14.  As claimed: on every 200 answer of ForwardAuth GET,               *)
(* X-User-Name-Encoding is base64 and X-User-Name decoded as base64/UTF-8  *)
(* is the display name of the session user (empty when absent), non-ASCII  *)
(* names included; and an authenticated request whose user has a display   *)
(* name outside ASCII (id and email being plain) is not answered 302.      *)
(***************************************************************************)
C14_AsClaimed ==
  /\ (AnsweredGET /\ resp.status = 200) =>
       /\ {"X-User-Name", "X-User-Name-Encoding"} \subseteq DOMAIN resp.headers
       /\ resp.headers["X-User-Name-Encoding"] = <<"b", "a", "s", "e", "6", "4">>
       /\ Utf8Decode(Base64Decode(resp.headers["X-User-Name"]))
            = OrElse(AuthenticatedUser.name, <<>>)
  /\ ( /\ Authenticated
       /\ AuthenticatedUser # NoUser
       /\ IsByteString(OrElse(AuthenticatedUser.email, <<>>)) )
     => resp.status = 200

\* the same statement for the handler of app/page.tsx alone
C14_PageOnly == (AnsweredGET /\ req.impl = "route") \/ C14_AsClaimed

\* the round trip is exercised: a 200 answer of app/page.tsx for the name 张
C14_PageRoundTrip ==
  /\ AnsweredGET /\ req.impl = "page" /\ resp.status = 200
  /\ AuthenticatedUser.name = <<"U+5F20">>
  /\ resp.headers["X-User-Name"] = <<"5", "b", "y", "g">>

(***************************************************************************)
(* C15.  As claimed: when the refresh succeeds in ForwardAuth GET and the  *)
(* request is answered 200, the response sets the AuthCookie               *)
(* sb-<project-ref>-auth-token to the newly issued session.                *)
(***************************************************************************)
C15_AsClaimed ==
  (RefreshSucceeded /\ resp.status = 200) =>
    \E i \in 1..Len(resp.cookies) :
      /\ resp.cookies[i].name = AuthCookieName(env)
      /\ resp.cookies[i].value = SessionJson(RefreshOut.session)

(***************************************************************************)
(* C16.  Every 302 answer of ForwardAuth GET sets and clears no cookie and *)
(* carries the Location header only: after a missing credential, after a   *)
(* failed refresh, and when the catch block answers.                       *)
(***************************************************************************)
C16_DenialSetsNoCookie ==
  (AnsweredGET /\ resp.status = 302) =>
    /\ resp.cookies = <<>>
    /\ DOMAIN resp.headers = {"Location"}

\* C16 witness: the refresh gave a session, sb-access-token was set on the
\* 200 response under construction, a header could not be set, and the catch
\* block answered 302 without any cookie
C16_Witness ==
  /\ AnsweredGET /\ resp.status = 302
  /\ RefreshCalled /\ HasSession(RefreshOut)
  /\ Truthy(CookieValue(req.cookies, T_refreshToken))
  /\ resp.cookies = <<>>

(***************************************************************************)
(* C17.  As claimed: a session returned by the provider with a field       *)
(* missing (user, access token, refresh token or expiry) is treated as     *)
(* absent: the callback issues no AuthCookie built from it.                *)
(***************************************************************************)
\* a session object with a field missing (the sessions of this model lack
\* their user or their access token)
PartialSession(s) ==
  /\ s # NoSession
  /\ \/ s.user = NoUser
     \/ s.access_token = Null
     \/ s.refresh_token = Null

C17_AsClaimed ==
  ( /\ AnsweredCallback /\ Len(calls) = 1
    /\ calls[1].out.kind = "returned"
    /\ PartialSession(calls[1].out.session) )
  => ~SetsAuthCookie

\* the part of C17 about ForwardAuth GET: no 200 answer from a partial session
C17_ForwardAuthPart ==
  ( /\ AnsweredGET
    /\ \/ GetSessionOut.kind = "returned" /\ PartialSession(GetSessionOut.session)
       \/ /\ ~HasSession(GetSessionOut) /\ RefreshCalled
          /\ RefreshOut.kind = "returned" /\ PartialSession(RefreshOut.session) )
  => resp.status # 200

(***************************************************************************)
(* C18.  Within one ForwardAuth GET request getSession is called first and *)
(* once; refreshSession is called at most once, only after getSession gave *)
(* no session and only with a non-empty sb-refresh-token cookie; it is not *)
(* called when getSession gave a session, and a failed refresh is not      *)
(* retried.                                                                *)
(***************************************************************************)
C18_CallOrder ==
  AnsweredGET =>
    /\ Len(calls) \in {1, 2}
    /\ calls[1].op = "getSession"
    /\ Len(calls) = 2 =>
         /\ calls[2].op = "refreshSession"
         /\ ~HasSession(GetSessionOut)
         /\ Truthy(CookieValue(req.cookies, T_refreshToken))
    /\ HasSession(GetSessionOut) => Len(calls) = 1

\* C18 witness: getSession gave a session, the refresh-token cookie is there
\* and refreshSession was not called
C18_Witness ==
  /\ AnsweredGET /\ HasSession(GetSessionOut)
  /\ Truthy(CookieValue(req.cookies, T_refreshToken))
  /\ Len(calls) = 1 /\ resp.status = 200

(***************************************************************************)
(* C19.  As claimed: on its normal path (signOut returned and the target   *)
(* resolves to a URL) the logout handler redirects to the `redirect`       *)
(* parameter whenever the parameter is present, the allow-list not being   *)
(* consulted, and to /login only when it is absent.                        *)
(***************************************************************************)
\* the logout handler answered on its normal path with the redirect to target
LogoutRedirectsTo(target) ==
  ( /\ AnsweredLogout
    /\ calls[1].out.kind = "returned"
    /\ ResolveURL(target, req.url).ok )
  => /\ resp.status = 307
     /\ resp.headers["Location"] = Href(ResolveURL(target, req.url))

C19_AsClaimed ==
  LogoutRedirectsTo(IF req.redirect # Null THEN req.redirect ELSE T_login)

\* C19 amended: the parameter is followed when it is present and not empty;
\* an absent or empty parameter gives /login
C19_LogoutRedirect ==
  LogoutRedirectsTo(IF req.redirect \notin {Null, <<>>} THEN req.redirect ELSE T_login)

\* C19 witness: under the allow-list ['localhost'] the logout redirects to
\* http://ab, which isValidRedirectUrl rejects
C19_Witness ==
  /\ AnsweredLogout /\ calls[1].out.kind = "returned"
  /\ req.redirect = T_evilUrl
  /\ ~isValidRedirectUrl(req.redirect, env).value
  /\ resp.headers["Location"] = Href(ParseURL(T_evilUrl))

(***************************************************************************)
(* C20.  As claimed: every hostname that isValidRedirectUrl allows is      *)
(* justified by a configured domain that is not empty (an exact entry, or  *)
(* the base of a wildcard entry): an empty entry allows no hostname.       *)
(***************************************************************************)
\* the domain an entry stands for: the entry, or the base of *.base
EntryDomain(d) == IF StartsWith(d, <<"*", ".">>) THEN Slice(d, 2) ELSE d

\* h is empty (a URL without a host, as mailto:a@b), a host name, or a host
\* name written with its trailing dot
PlainHostname(h) ==
  \/ h = <<>>
  \/ IsHostName(h)
  \/ h[Len(h)] = "." /\ IsHostName(SubSeq(h, 1, Len(h) - 1))

C20_AsClaimed ==
  (PolicyRan /\ ParseURL(req.url).ok /\ PlainHostname(Hostname) /\ resp.value) =>
    \E i \in 1..Len(ConfiguredEntries) :
      /\ EntryDomain(ConfiguredEntries[i]) # <<>>
      /\ \/ Hostname = EntryDomain(ConfiguredEntries[i])
         \/ EndsWithDot(Hostname, EntryDomain(ConfiguredEntries[i]))

(***************************************************************************)
(* C21.  The verdict of isValidRedirectUrl depends on the parsed hostname  *)
(* and the allow-list only: every parseable URL with the hostname of the   *)
(* URL just judged gets the same verdict, whatever its scheme, port,       *)
(* userinfo, path or query.                                                *)
(***************************************************************************)
\* the verdict of the same isValidRedirectUrl on another URL
VerdictOn(url) ==
  IF req.impl = "lib" THEN isValidRedirectUrlLib(url).value
  ELSE isValidRedirectUrl(url, env).value

\* URLs with host h that differ in scheme, userinfo, port, path and query
SameHostUrls(h) ==
  {T_http \o T_slashes \o h,
   T_https \o T_slashes \o h \o <<"/", "p", "?", "x", "=", "1">>,
   T_http \o T_slashes \o <<"u", "@">> \o h,
   T_http \o T_slashes \o h \o <<":", "8">>,
   <<"x", ":", "/", "/">> \o h}

C21_HostnameOnly ==
  (PolicyRan /\ ParseURL(req.url).ok) =>
    \A u \in SameHostUrls(Hostname) :
      (ParseURL(u).ok /\ ParseURL(u).hostname = Hostname) => VerdictOn(u) = resp.value

\* C21 witness: under b the URL x://b is allowed, as http://b:8 and
\* http://u@b are
C21_Witness ==
  /\ PolicyRan /\ req.impl = "part_000"
  /\ env.ALLOWED_DOMAINS = <<"b">>
  /\ req.url = <<"x", ":", "/", "/", "b">>
  /\ resp.value
  /\ VerdictOn(T_http \o T_slashes \o <<"b", ":", "8">>)
  /\ VerdictOn(T_http \o T_slashes \o <<"u", "@", "b">>)

(***************************************************************************)
(* C22.  As claimed: when an exception escapes inside the try block of     *)
(* ForwardAuth GET (a session was there and the 200 answer could not be    *)
(* built), the 302 of the catch block has the Location that the normal     *)
(* Denied path gives for that same request.                                *)
(***************************************************************************)
C22_AsClaimed ==
  (Authenticated /\ resp.status = 302) =>
    resp.headers["Location"] = DenialWithoutCookie.headers["Location"]

\* the same statement for requests that carry a non-empty X-Forwarded-Host
C22_WithForwardedHost ==
  (Authenticated /\ resp.status = 302 /\ Truthy(req.xfHost)) =>
    resp.headers["Location"] = DenialWithoutCookie.headers["Location"]

\* the same statement for requests without X-Forwarded-Host
C22_WithoutForwardedHost ==
  (Authenticated /\ resp.status = 302 /\ ~Truthy(req.xfHost)) =>
    resp.headers["Location"] = DenialWithoutCookie.headers["Location"]

====
